---- MODULE Spec2Model ----
(***************************************************************************)
(* Credential access control, ownership transfer and secret redaction of   *)
(* packages/cli/src/credentials/credentials.service.ts (CredentialsService)*)
(*                                                                         *)
(* Spec    : the service's store operations run one at a time (save,       *)
(*           delete, share, transferAll).                                  *)
(* SpecUse : getCredentialsAUserCanUseInAWorkflow asked of stored rows.    *)
(* SpecTx  : transferAll run statement by statement, with a concurrent     *)
(*           second call, a concurrent reader and failing statements.      *)
(* SpecRedact : redact / unredact applied to bounded payloads and types.   *)
(***************************************************************************)
EXTENDS Integers, Sequences, FiniteSets, TLC

\* ------------------------------------------------------------------------
\* Bounds of the model
\* ------------------------------------------------------------------------
MaxCreds == 2
MaxShares == 2
MaxCalls == 2

CredIds == 1..MaxCreds
CallIds == 1..MaxCalls

\* ------------------------------------------------------------------------
\* Static directory: users, projects, project relations, workflows
\* ------------------------------------------------------------------------
Users == {"u1", "u2", "u3"}
Projects == {"pA", "pB", "pC"}
Workflows == {"w1", "w2", "w3"}

OWNER == "credential:owner"
NonOwnerRoles == {"credential:editor", "credential:user"}

\* kind of each project
ProjectType(p) == IF p \in {"pA", "pB"} THEN "personal" ELSE "team"

\* membership edges (projectId, userId, role); u3 has no personal project
ProjectRelations ==
    { [projectId |-> "pA", userId |-> "u1", role |-> "project:personalOwner"],
      [projectId |-> "pB", userId |-> "u2", role |-> "project:personalOwner"],
      [projectId |-> "pC", userId |-> "u2", role |-> "project:editor"],
      [projectId |-> "pC", userId |-> "u3", role |-> "project:viewer"] }

\* u1 is the instance owner: it holds every credential scope globally
HasGlobalScope(u, scope) == u = "u1"

\* scopes a project role grants over the credentials of the project
ProjectRoleScopes(role) ==
    IF role \in {"project:personalOwner", "project:admin", "project:editor"}
    THEN {"credential:create", "credential:read", "credential:update", "credential:list"}
    ELSE {"credential:read", "credential:list"}

getProjectRelationsForUser(u) == {pr \in ProjectRelations : pr.userId = u}

\* the project a workflow lives in
WorkflowProject(w) == CASE w = "w1" -> "pA" [] w = "w2" -> "pB" [] OTHER -> "pC"

NoProject == "null"
NoUser == "null"

getPersonalProject(u) ==
    LET ps == {pr.projectId : pr \in {x \in ProjectRelations :
                    x.userId = u /\ x.role = "project:personalOwner"}}
    IN IF ps = {} THEN NoProject ELSE CHOOSE p \in ps : TRUE

getProjectWithScope(u, projectId, scope) ==
    IF HasGlobalScope(u, scope)
       \/ \E pr \in getProjectRelationsForUser(u) :
             pr.projectId = projectId /\ scope \in ProjectRoleScopes(pr.role)
    THEN projectId
    ELSE NoProject

findPersonalOwnerForProject(projectId) ==
    LET us == {pr.userId : pr \in {x \in ProjectRelations :
                    x.projectId = projectId /\ x.role = "project:personalOwner"}}
    IN IF us = {} THEN NoUser ELSE CHOOSE u \in us : TRUE

findPersonalOwnerForWorkflow(w) == findPersonalOwnerForProject(WorkflowProject(w))

\* ------------------------------------------------------------------------
\* State
\* ------------------------------------------------------------------------
VARIABLES
    credentials,   \* ids of the credential rows that exist (committed)
    shared,        \* committed SharedCredentials rows [credentialsId, projectId, role]
    last,          \* the last completed operation, its inputs and (transferAll) the rows before it
    calls,         \* SpecTx: the transferAll calls in progress, statement by statement
    observed,      \* SpecTx: what a concurrent reader of the rows last saw
    data,          \* SpecRedact: the decrypted payload stored for the credential
    credentialType,\* SpecRedact: the type name of the credential
    redacted,      \* SpecRedact: what redact returned for the payload
    merged,        \* SpecRedact, SpecUpdate: what unredact returned
    rpc,           \* SpecRedact, SpecUpdate: position in the exchange
    incoming,      \* SpecUpdate: the payload a caller submits with an update
    updateData,    \* SpecUpdate: the payload prepareUpdateData returns
    flat,          \* SpecFlatten: the call stack of getExtendedProps
    twin           \* SpecPair: a second payload with the same keys, and its redaction

storeVars == <<credentials, shared, last, calls, observed>>
redactVars == <<data, credentialType, redacted, merged, rpc, incoming, updateData, flat, twin>>
vars == <<storeVars, redactVars>>

Row(c, p, r) == [credentialsId |-> c, projectId |-> p, role |-> r]

\* ------------------------------------------------------------------------
\* SharedCredentials repository
\* ------------------------------------------------------------------------
\* rows whose key (credentialsId, projectId) is taken by one of `ids` in `projectId`
KeyedRows(rows, ids, projectId) ==
    {sc \in rows : sc.credentialsId \in ids /\ sc.projectId = projectId}

\* trx.findBy(SharedCredentials, { projectId: In(projectIds) })
findBy(rows, projectIds) == {sc \in rows : sc.projectId \in projectIds}

\* upsert of (credentialsId, projectId) -> credential:owner
makeOwner(rows, ids, projectId) ==
    (rows \ KeyedRows(rows, ids, projectId)) \cup {Row(c, projectId, OWNER) : c \in ids}

\* delete where projectId = projectId and credentialsId in ids
deleteByIds(rows, ids, projectId) == rows \ KeyedRows(rows, ids, projectId)

\* a plain insert fails on a row whose key exists already
InsertConflicts(rows, new) ==
    \E n \in new : \E sc \in rows :
        sc.credentialsId = n.credentialsId /\ sc.projectId = n.projectId

insert(rows, new) == rows \cup new

\* removing a credential cascades to its sharing rows
removeCascade(rows, c) == {sc \in rows : sc.credentialsId # c}

\* ------------------------------------------------------------------------
\* transferAll: the values it computes from the loaded rows
\* ------------------------------------------------------------------------
sharedCredentialsOfFromProject(all, fromProjectId) ==
    {sc \in all : sc.projectId = fromProjectId}

\* variant: the role filter on the from-project's rows is dropped
ownedCredentialIds_AnyRole(all, fromProjectId) ==
    {sc.credentialsId : sc \in sharedCredentialsOfFromProject(all, fromProjectId)}

ownedCredentialIds(all, fromProjectId) ==
    {sc.credentialsId : sc \in
        {x \in sharedCredentialsOfFromProject(all, fromProjectId) : x.role = OWNER}}

sharedCredentialIdsOfTransferee(all, toProjectId) ==
    {sc.credentialsId : sc \in {x \in all : x.projectId = toProjectId}}

\* variant: rows the to-project already has a relation for are transferred too
sharedCredentialsToTransfer_NoExclusion(all, fromProjectId, toProjectId) ==
    {sc \in sharedCredentialsOfFromProject(all, fromProjectId) : sc.role # OWNER}

sharedCredentialsToTransfer(all, fromProjectId, toProjectId) ==
    {sc \in sharedCredentialsOfFromProject(all, fromProjectId) :
        /\ sc.role # OWNER
        /\ sc.credentialsId \notin sharedCredentialIdsOfTransferee(all, toProjectId)}

RowsToInsert(all, fromProjectId, toProjectId) ==
    {Row(sc.credentialsId, toProjectId, sc.role) :
        sc \in sharedCredentialsToTransfer(all, fromProjectId, toProjectId)}

\* the three writes of transferAll, in the order of the code
\* variant: ownership is written to the from-project
StepMakeOwner_FromProject(rows, all, fromProjectId, toProjectId) ==
    makeOwner(rows, ownedCredentialIds(all, fromProjectId), fromProjectId)

StepMakeOwner(rows, all, fromProjectId, toProjectId) ==
    makeOwner(rows, ownedCredentialIds(all, fromProjectId), toProjectId)

StepDelete(rows, all, fromProjectId, toProjectId) ==
    deleteByIds(rows, ownedCredentialIds(all, fromProjectId), fromProjectId)

StepInsert(rows, all, fromProjectId, toProjectId) ==
    insert(rows, RowsToInsert(all, fromProjectId, toProjectId))

\* a whole call that nothing interleaves with
transferAllRows(rows, fromProjectId, toProjectId) ==
    LET all == findBy(rows, {fromProjectId, toProjectId})
        r1 == StepMakeOwner(rows, all, fromProjectId, toProjectId)
        r2 == StepDelete(r1, all, fromProjectId, toProjectId)
    IN StepInsert(r2, all, fromProjectId, toProjectId)

\* ------------------------------------------------------------------------
\* Credentials usable in a workflow or project
\* ------------------------------------------------------------------------
\* every sharing role grants credential:read over the credential
CredentialRoleScopes(role) ==
    IF role = OWNER
    THEN {"credential:read", "credential:update", "credential:delete", "credential:share"}
    ELSE {"credential:read"}

CredentialsIn(rows, creds, ps) ==
    {c \in creds : \E sc \in rows : sc.credentialsId = c /\ sc.projectId \in ps}

findAllPersonalCredentials(rows, creds) ==
    CredentialsIn(rows, creds, {p \in Projects : ProjectType(p) = "personal"})

findAllCredentialsForWorkflow(rows, creds, workflowId) ==
    CredentialsIn(rows, creds, {WorkflowProject(workflowId)})

findAllCredentialsForProject(rows, creds, projectId) ==
    CredentialsIn(rows, creds, {projectId})

\* credentials the user reaches with `scope` through a sharing row of a
\* project the user is a member of; a global scope adds every credential
\* of a personal project
findCredentialsForUser(rows, creds, user, scope) ==
    {c \in creds : \E sc \in rows : \E pr \in getProjectRelationsForUser(user) :
        /\ sc.credentialsId = c
        /\ sc.projectId = pr.projectId
        /\ scope \in CredentialRoleScopes(sc.role)
        /\ scope \in ProjectRoleScopes(pr.role)}
    \cup (IF HasGlobalScope(user, scope) THEN findAllPersonalCredentials(rows, creds) ELSE {})

findAllCredentialIdsForWorkflow(rows, creds, workflowId) ==
    IF HasGlobalScope(findPersonalOwnerForWorkflow(workflowId), "credential:read")
    THEN findAllPersonalCredentials(rows, creds)
    ELSE findAllCredentialsForWorkflow(rows, creds, workflowId)

findAllCredentialIdsForProject(rows, creds, projectId) ==
    IF HasGlobalScope(findPersonalOwnerForProject(projectId), "credential:read")
    THEN findAllPersonalCredentials(rows, creds)
    ELSE findAllCredentialsForProject(rows, creds, projectId)

Contexts ==
    [kind : {"workflowId"}, id : Workflows] \cup [kind : {"projectId"}, id : Projects]

allCredentialsForWorkflow(rows, creds, options) ==
    IF options.kind = "workflowId"
    THEN findAllCredentialIdsForWorkflow(rows, creds, options.id)
    ELSE findAllCredentialIdsForProject(rows, creds, options.id)

\* variant: the workflow side is not applied
intersection_UserSideOnly(allCredentials, forWorkflow) == allCredentials

\* allCredentials.filter((c) => allCredentialsForWorkflow.includes(c.id))
intersection(allCredentials, forWorkflow) ==
    {c \in allCredentials : c \in forWorkflow}

getCredentialsAUserCanUseInAWorkflow(rows, creds, user, options) ==
    intersection(findCredentialsForUser(rows, creds, user, "credential:read"),
                 allCredentialsForWorkflow(rows, creds, options))

\* sharedCredentialsRepository.getCredentialIdsByUserAndRole([user.id], {scopes})
getCredentialIdsByUserAndRole(rows, creds, user, scope) ==
    {c \in creds : \E sc \in rows : \E pr \in getProjectRelationsForUser(user) :
        /\ sc.credentialsId = c
        /\ sc.projectId = pr.projectId
        /\ scope \in CredentialRoleScopes(sc.role)
        /\ scope \in ProjectRoleScopes(pr.role)}

\* credentialsRepository.findMany(listQueryOptions, credentialIds?): the
\* credentials among ids that have a sharing row in filter.projectId
findMany(rows, ids, projectId) ==
    IF projectId = "undefined"
    THEN ids
    ELSE CredentialsIn(rows, ids, {projectId})

\* variant: the query uses the project id as the caller sent it
getManyFilter_AsRequested(user, projectId, includeScopes) == projectId

\* getMany: filter.projectId as it is when findMany is called
getManyFilter(user, projectId, includeScopes) ==
    LET returnAll == HasGlobalScope(user, "credential:list")
        afterScopes ==
            IF /\ includeScopes
               /\ projectId # "undefined"
               /\ returnAll
               /\ \E pr \in getProjectRelationsForUser(user) :
                     pr.projectId = projectId /\ pr.role = "project:personalOwner"
            THEN "undefined"
            ELSE projectId
    IN IF returnAll
       THEN afterScopes
       ELSE IF afterScopes # "undefined" /\ ProjectType(afterScopes) = "personal"
            THEN IF getPersonalProject(user) = NoProject
                 THEN "undefined"
                 ELSE getPersonalProject(user)
            ELSE afterScopes

getMany(rows, creds, user, projectId, includeScopes) ==
    IF HasGlobalScope(user, "credential:list")
    THEN findMany(rows, creds, getManyFilter(user, projectId, includeScopes))
    ELSE findMany(rows, getCredentialIdsByUserAndRole(rows, creds, user, "credential:read"),
                  getManyFilter(user, projectId, includeScopes))

\* getSharing(user, credentialId, globalScopes): the rows findOne chooses from
getSharing(rows, user, credentialId, globalScope) ==
    IF HasGlobalScope(user, globalScope)
    THEN {sc \in rows : sc.credentialsId = credentialId}
    ELSE {sc \in rows :
            /\ sc.credentialsId = credentialId
            /\ sc.role = OWNER
            /\ \E pr \in ProjectRelations :
                  /\ pr.projectId = sc.projectId
                  /\ pr.role = "project:personalOwner"
                  /\ pr.userId = user}

\* getOne(user, credentialId, includeDecryptedData): the error it throws and
\* whether the object it returns has a data field
getOne(rows, user, credentialId, includeDecryptedData) ==
    LET first == IF includeDecryptedData
                 THEN getSharing(rows, user, credentialId, "credential:read")
                 ELSE {}
        sharing == IF first # {}
                   THEN first
                   ELSE getSharing(rows, user, credentialId, "credential:read")
    IN IF sharing = {}
       THEN [error |-> "NotFoundError", hasData |-> FALSE]
       ELSE [error |-> "none", hasData |-> first # {}]

\* the scopes getCredentialScopes combines for a user over a credential
HoldsCredentialScope(rows, user, credentialId, scope) ==
    \/ HasGlobalScope(user, scope)
    \/ \E sc \in rows : \E pr \in getProjectRelationsForUser(user) :
          /\ sc.credentialsId = credentialId
          /\ sc.projectId = pr.projectId
          /\ scope \in CredentialRoleScopes(sc.role)
          /\ scope \in ProjectRoleScopes(pr.role)

\* ------------------------------------------------------------------------
\* Counting helpers
\* ------------------------------------------------------------------------
OwnerRows(rows, c) == {sc \in rows : sc.credentialsId = c /\ sc.role = OWNER}
OwnerRowsIn(rows, ps) == {sc \in rows : sc.projectId \in ps /\ sc.role = OWNER}
RowsOf(rows, c, p) == {sc \in rows : sc.credentialsId = c /\ sc.projectId = p}
NonOwnerRows(rows) == {sc \in rows : sc.role # OWNER}

\* ------------------------------------------------------------------------
\* Spec: operations one at a time
\* ------------------------------------------------------------------------
\* no credential payload is being read or edited
RedactIdle ==
    /\ data = <<>>
    /\ credentialType = "none"
    /\ redacted = <<>>
    /\ merged = <<>>
    /\ rpc = "idle"
    /\ incoming = <<>>
    /\ updateData = <<>>
    /\ flat = [pc |-> "idle"]
    /\ twin = <<>>

NoCalls == [i \in CallIds |-> [pc |-> "idle"]]
NoRead == [op |-> "none"]

Init ==
    /\ credentials = {}
    /\ shared = {}
    /\ last = [op |-> "init"]
    /\ calls = NoCalls
    /\ observed = NoRead
    /\ RedactIdle

\* save(credential, encryptedData, user, projectId?) inside Db.transaction
SaveProject(user, projectId) ==
    IF projectId = "undefined"
    THEN getPersonalProject(user)
    ELSE getProjectWithScope(user, projectId, "credential:create")

SaveError(user, projectId) ==
    IF projectId # "undefined" /\ SaveProject(user, projectId) = NoProject
    THEN "BadRequestError"
    ELSE IF SaveProject(user, projectId) = NoProject
         THEN "ApplicationError"
         ELSE "none"

\* the id the store generates for a new credential row
NewId(creds) == CHOOSE id \in CredIds \ creds : \A other \in CredIds \ creds : id <= other

\* variant: no transaction, the credential row saved first stays on an error
Save_NoRollback(user, projectId) ==
    /\ CredIds \ credentials # {}
    /\ LET err == SaveError(user, projectId)
           id == NewId(credentials) IN
         /\ last' = [op |-> "save", user |-> user, projectId |-> projectId,
                     id |-> id, error |-> err,
                     pre |-> shared, preCredentials |-> credentials]
         /\ credentials' = credentials \cup {id}
         /\ IF err = "none"
            THEN shared' = shared \cup {Row(id, SaveProject(user, projectId), OWNER)}
            ELSE UNCHANGED shared
    /\ UNCHANGED <<calls, observed, redactVars>>

Save(user, projectId) ==
    /\ CredIds \ credentials # {}
    /\ LET err == SaveError(user, projectId)
           id == NewId(credentials) IN
         /\ last' = [op |-> "save", user |-> user, projectId |-> projectId,
                     id |-> id, error |-> err,
                     pre |-> shared, preCredentials |-> credentials]
         /\ IF err = "none"
            THEN /\ credentials' = credentials \cup {id}
                 /\ shared' = shared \cup {Row(id, SaveProject(user, projectId), OWNER)}
            ELSE UNCHANGED <<credentials, shared>>
    /\ UNCHANGED <<calls, observed, redactVars>>

\* delete(credentials): credentialsRepository.remove
Delete(c) ==
    /\ c \in credentials
    /\ credentials' = credentials \ {c}
    /\ shared' = removeCascade(shared, c)
    /\ last' = [op |-> "delete", id |-> c]
    /\ UNCHANGED <<calls, observed, redactVars>>

\* an explicit sharing operation adds one non-owner row
Share(c, p, r) ==
    /\ c \in credentials
    /\ r \in NonOwnerRoles
    /\ RowsOf(shared, c, p) = {}
    /\ Cardinality(NonOwnerRows(shared)) < MaxShares
    /\ shared' = shared \cup {Row(c, p, r)}
    /\ last' = [op |-> "share", id |-> c]
    /\ UNCHANGED <<credentials, calls, observed, redactVars>>

\* transferAll(fromProjectId, toProjectId) run to completion
TransferAll(fromProjectId, toProjectId) ==
    /\ shared' = transferAllRows(shared, fromProjectId, toProjectId)
    /\ last' = [op |-> "transferAll", from |-> fromProjectId, to |-> toProjectId,
                pre |-> shared]
    /\ UNCHANGED <<credentials, calls, observed, redactVars>>

Next ==
    \/ \E u \in Users, p \in Projects \cup {"undefined"} : Save(u, p)
    \/ \E c \in CredIds : Delete(c)
    \/ \E c \in CredIds, p \in Projects, r \in NonOwnerRoles : Share(c, p, r)
    \/ \E f \in Projects, t \in Projects : TransferAll(f, t)

Spec == Init /\ [][Next]_vars

\* ------------------------------------------------------------------------
\* SpecUse: the usable-credentials query asked of a stored set of rows
\* ------------------------------------------------------------------------
\* the stores save and share build: every credential has its owner row and
\* at most MaxShares rows are non-owner rows
OwnedStores ==
    UNION { { {Row(c, o[c], OWNER) : c \in CredIds} \cup extra :
                extra \in { e \in SUBSET { Row(c, p, r) : c \in CredIds,
                                                       p \in Projects, r \in NonOwnerRoles } :
                              /\ Cardinality(e) <= MaxShares
                              /\ \A sc \in e : sc.projectId # o[sc.credentialsId]
                              /\ \A x \in e, y \in e :
                                   (x.credentialsId = y.credentialsId
                                    /\ x.projectId = y.projectId) => x = y } } :
            o \in [CredIds -> Projects] }

InitUse ==
    /\ credentials = CredIds
    /\ shared \in OwnedStores
    /\ last = [op |-> "init"]
    /\ calls = NoCalls
    /\ observed = NoRead
    /\ RedactIdle

\* getCredentialsAUserCanUseInAWorkflow(user, options): a read
GetCredentialsAUserCanUseInAWorkflow(user, options) ==
    /\ last.op = "init"
    /\ last' = [op |-> "getCredentialsAUserCanUseInAWorkflow", user |-> user,
                options |-> options,
                result |-> getCredentialsAUserCanUseInAWorkflow(shared, credentials,
                                                                user, options)]
    /\ UNCHANGED <<credentials, shared, calls, observed, redactVars>>

\* getMany(user, {listQueryOptions: {filter: {projectId}}, includeScopes}): a read
GetMany(user, projectId, includeScopes) ==
    /\ last.op = "init"
    /\ last' = [op |-> "getMany", user |-> user, projectId |-> projectId,
                includeScopes |-> includeScopes,
                queried |-> getManyFilter(user, projectId, includeScopes),
                result |-> getMany(shared, credentials, user, projectId, includeScopes)]
    /\ UNCHANGED <<credentials, shared, calls, observed, redactVars>>

\* getOne(user, credentialId, includeDecryptedData): a read
GetOne(user, credentialId, includeDecryptedData) ==
    /\ last.op = "init"
    /\ credentialId \in credentials
    /\ last' = [op |-> "getOne", user |-> user, id |-> credentialId,
                includeDecryptedData |-> includeDecryptedData,
                result |-> getOne(shared, user, credentialId, includeDecryptedData)]
    /\ UNCHANGED <<credentials, shared, calls, observed, redactVars>>

NextUse ==
    \/ \E u \in Users, o \in Contexts : GetCredentialsAUserCanUseInAWorkflow(u, o)
    \/ \E u \in Users, c \in CredIds, i \in BOOLEAN : GetOne(u, c, i)
    \/ \E u \in Users, p \in Projects \cup {"undefined"}, i \in BOOLEAN : GetMany(u, p, i)

SpecUse == InitUse /\ [][NextUse]_vars

\* ------------------------------------------------------------------------
\* SpecTx: transferAll statement by statement
\*
\* Each await of transferAll is a point where another request may run.
\* Without a transaction handle (trx = FALSE) the statements run on
\* credentialsRepository.manager and each write is committed on its own.
\* With a handle (trx = TRUE) the writes belong to the caller's
\* transaction: they reach the committed rows together at TxCommit, or
\* not at all when a statement fails and the caller rolls back.
\* ------------------------------------------------------------------------
Running == {"loaded", "madeOwner", "deleted", "inserted"}

\* stores a run of save / share / transferAll leaves behind: one owner row
\* per credential, credential 1 owned by pA, at most one non-owner row
TxInitialStores ==
    { {Row(1, "pA", OWNER)} \cup {Row(c, o[c], OWNER) : c \in 2..MaxCreds} \cup extra :
        o \in [2..MaxCreds -> {"pA", "pB"}],
        extra \in { {}, {Row(1, "pB", "credential:editor")},
                        {Row(1, "pC", "credential:user")} } }

InitTx ==
    /\ credentials = CredIds
    /\ shared \in TxInitialStores
    /\ last = [op |-> "initTx", pre |-> shared]
    /\ calls = NoCalls
    /\ observed = NoRead
    /\ RedactIdle

SetCall(i, rec) == calls' = [calls EXCEPT ![i] = rec]
AtPc(i, pc) == calls' = [calls EXCEPT ![i].pc = pc]

\* trx = trx ?? manager; allSharedCredentials = await trx.findBy(...)
TxBegin(i, fromProjectId, toProjectId, trx) ==
    /\ calls[i].pc = "idle"
    /\ SetCall(i, [pc |-> "loaded", from |-> fromProjectId, to |-> toProjectId,
                   trx |-> trx, pre |-> shared,
                   all |-> findBy(shared, {fromProjectId, toProjectId})])
    /\ UNCHANGED <<credentials, shared, last, observed, redactVars>>

\* await this.sharedCredentialsRepository.makeOwner(...)
TxMakeOwner(i) ==
    /\ calls[i].pc = "loaded"
    /\ shared' = IF calls[i].trx THEN shared
                 ELSE StepMakeOwner(shared, calls[i].all, calls[i].from, calls[i].to)
    /\ AtPc(i, "madeOwner")
    /\ UNCHANGED <<credentials, last, observed, redactVars>>

\* await this.sharedCredentialsRepository.deleteByIds(...)
TxDelete(i) ==
    /\ calls[i].pc = "madeOwner"
    /\ shared' = IF calls[i].trx THEN shared
                 ELSE StepDelete(shared, calls[i].all, calls[i].from, calls[i].to)
    /\ AtPc(i, "deleted")
    /\ UNCHANGED <<credentials, last, observed, redactVars>>

\* await trx.insert(SharedCredentials, ...): throws on an existing key
TxInsert(i) ==
    /\ calls[i].pc = "deleted"
    /\ IF calls[i].trx
       THEN /\ AtPc(i, "inserted")
            /\ UNCHANGED shared
       ELSE IF InsertConflicts(shared, RowsToInsert(calls[i].all, calls[i].from, calls[i].to))
            THEN /\ AtPc(i, "failed")
                 /\ UNCHANGED shared
            ELSE /\ AtPc(i, "done")
                 /\ shared' = StepInsert(shared, calls[i].all, calls[i].from, calls[i].to)
    /\ UNCHANGED <<credentials, last, observed, redactVars>>

\* the caller's transaction commits: its writes reach the committed rows
TxCommit(i) ==
    /\ calls[i].pc = "inserted"
    /\ LET c == calls[i]
           r1 == StepMakeOwner(shared, c.all, c.from, c.to)
           r2 == StepDelete(r1, c.all, c.from, c.to)
       IN IF InsertConflicts(r2, RowsToInsert(c.all, c.from, c.to))
          THEN /\ AtPc(i, "failed")
               /\ UNCHANGED shared
          ELSE /\ AtPc(i, "done")
               /\ shared' = StepInsert(r2, c.all, c.from, c.to)
    /\ UNCHANGED <<credentials, last, observed, redactVars>>

\* the next statement of the call throws (store error, request timeout);
\* nothing in transferAll catches it or undoes the writes already made
TxFail(i) ==
    /\ calls[i].pc \in Running
    /\ AtPc(i, "failed")
    /\ UNCHANGED <<credentials, shared, last, observed, redactVars>>

\* a lock-free read of the committed rows (getMany, getSharing,
\* getCredentialScopes: sharedCredentialsRepository.find)
TxRead ==
    /\ \E i \in CallIds : calls[i].pc \in Running
    /\ observed' = [op |-> "read", rows |-> shared]
    /\ UNCHANGED <<credentials, shared, last, calls, redactVars>>

NextTx ==
    \/ \E i \in CallIds, f \in Projects, t \in Projects, trx \in BOOLEAN :
          TxBegin(i, f, t, trx)
    \/ \E i \in CallIds : TxMakeOwner(i)
    \/ \E i \in CallIds : TxDelete(i)
    \/ \E i \in CallIds : TxInsert(i)
    \/ \E i \in CallIds : TxCommit(i)
    \/ \E i \in CallIds : TxFail(i)
    \/ TxRead

SpecTx == InitTx /\ [][NextTx]_vars

\* ------------------------------------------------------------------------
\* Credential types and payloads (SpecRedact)
\* ------------------------------------------------------------------------
MaxKeys == 2
MaxDepth == 1

CREDENTIAL_BLANKING_VALUE == "__n8n_BLANK_VALUE_e5362baf-c777-4d57-a609-6eaf1f9e87f6"
CREDENTIAL_EMPTY_VALUE == "__n8n_EMPTY_VALUE_7b1af746-3729-4c60-9b9b-e08eb29e58da"

\* a payload value is a string [s |-> ...] or a nested object [o |-> ...]
Str(v) == [s |-> v]
Obj(f) == [o |-> f]
IsStr(value) == DOMAIN value = {"s"}
IsObj(value) == DOMAIN value = {"o"}
Undefined == [u |-> "undefined"]

Strings == {"", "secret", "={{$credentials.secret}}",
            CREDENTIAL_BLANKING_VALUE, CREDENTIAL_EMPTY_VALUE}

\* value.startsWith('={{') over the strings of the model
StartsWithExpression(v) == v \in {"={{$credentials.secret}}"}

\* value.toString().length > 0: an object prints as "[object Object]"
ToStringNonEmpty(value) == IF IsStr(value) THEN value.s # "" ELSE TRUE

NestedKeys == {"a"}

RECURSIVE ValuesOfDepth(_)
ValuesOfDepth(d) ==
    IF d = 0
    THEN {Str(v) : v \in Strings}
    ELSE LET inner == ValuesOfDepth(d - 1)
         IN inner \cup UNION { {Obj(f) : f \in [ks -> inner]} : ks \in SUBSET NestedKeys }

DataKeys == {"x", "y", "z", "extra", "oauthTokenData", "csrfSecret"}

\* fields declared by a schema and csrfSecret hold strings; oauthTokenData
\* and fields outside every schema may hold nested objects
ValuesFor(key) ==
    IF key \in {"extra", "oauthTokenData"}
    THEN ValuesOfDepth(MaxDepth)
    ELSE ValuesOfDepth(0)

Payloads ==
    UNION { {f \in [ks -> ValuesOfDepth(MaxDepth)] : \A k \in ks : f[k] \in ValuesFor(k)} :
            ks \in {k \in SUBSET DataKeys : Cardinality(k) <= MaxKeys} }

\* the type registry: removedApi is a type that is no longer installed
Prop(name, password, noDataExpression) ==
    [name |-> name, password |-> password, noDataExpression |-> noDataExpression]

KnownTypes == {"baseApi", "childApi", "diamondApi", "brokenApi"}
TypeNames == KnownTypes \cup {"removedApi"}

Registry(name) ==
    CASE name = "baseApi" ->
           [extends |-> <<>>,
            properties |-> <<Prop("x", TRUE, FALSE), Prop("y", FALSE, FALSE)>>]
      [] name = "childApi" ->
           [extends |-> <<"baseApi">>,
            properties |-> <<Prop("x", FALSE, FALSE), Prop("z", TRUE, TRUE)>>]
      [] name = "diamondApi" ->
           [extends |-> <<"childApi", "baseApi">>,
            properties |-> <<Prop("oauthTokenData", FALSE, FALSE)>>]
      [] name = "brokenApi" ->
           [extends |-> <<"removedApi">>,
            properties |-> <<Prop("x", TRUE, FALSE)>>]

\* credentialTypes.getByName(name) throws for a name it does not know
getByNameThrows(name) == name \notin KnownTypes

IndexOfName(props, name) ==
    LET is == {i \in 1..Len(props) : props[i].name = name}
    IN IF is = {} THEN 0 ELSE CHOOSE i \in is : \A j \in is : i <= j

\* NodeHelpers.mergeNodeProperties(mainProperties, addProperties)
RECURSIVE mergeNodeProperties(_, _)
mergeNodeProperties(mainProperties, addProperties) ==
    IF addProperties = <<>>
    THEN mainProperties
    ELSE LET property == Head(addProperties)
             existingIndex == IndexOfName(mainProperties, property.name)
         IN mergeNodeProperties(
                IF existingIndex = 0
                THEN Append(mainProperties, property)
                ELSE [mainProperties EXCEPT ![existingIndex] = property],
                Tail(addProperties))

\* getExtendedProps throws when a type named in the extends chain is unknown
RECURSIVE getExtendedPropsThrows(_)
getExtendedPropsThrows(name) ==
    \E i \in 1..Len(Registry(name).extends) :
        LET e == Registry(name).extends[i]
        IN getByNameThrows(e) \/ getExtendedPropsThrows(e)

RECURSIVE getExtendedProps(_)
RECURSIVE ExtendLoop(_, _)
\* for (const e of type.extends ?? []) { ...mergeNodeProperties(props, extendedProps) }
ExtendLoop(props, extends) ==
    IF extends = <<>>
    THEN props
    ELSE ExtendLoop(mergeNodeProperties(props, getExtendedProps(Head(extends))),
                    Tail(extends))

\* variant: the type's own properties first, the inherited ones merged over
getExtendedProps_OwnFirst(name) ==
    mergeNodeProperties(Registry(name).properties,
                        ExtendLoop(<<>>, Registry(name).extends))

getExtendedProps(name) ==
    mergeNodeProperties(ExtendLoop(<<>>, Registry(name).extends),
                        Registry(name).properties)

\* ------------------------------------------------------------------------
\* redact and unredact
\* ------------------------------------------------------------------------
\* variant: one sentinel for every masked value
Mask_AlwaysBlanking(value) == Str(CREDENTIAL_BLANKING_VALUE)

\* variant: a string is returned as it is, only other values are masked
Mask_ObjectsOnly(value) ==
    IF IsStr(value) /\ value.s # "" THEN value ELSE Str(CREDENTIAL_BLANKING_VALUE)

Mask(value) ==
    IF ToStringNonEmpty(value)
    THEN Str(CREDENTIAL_BLANKING_VALUE)
    ELSE Str(CREDENTIAL_EMPTY_VALUE)

\* variant: every key is looked up in the schema
RedactKey_SchemaOnly(properties, dataKey, value) ==
    LET i == IndexOfName(properties, dataKey)
    IN IF i = 0
       THEN value
       ELSE IF /\ properties[i].password
               /\ (~StartsWithExpression(value.s) \/ properties[i].noDataExpression)
            THEN Mask(value)
            ELSE value

\* variant: an expression is never masked
RedactKey_ExpressionsPass(properties, dataKey, value) ==
    IF dataKey = "oauthTokenData" \/ dataKey = "csrfSecret"
    THEN Mask(value)
    ELSE LET i == IndexOfName(properties, dataKey)
         IN IF i = 0
            THEN value
            ELSE IF properties[i].password /\ ~StartsWithExpression(value.s)
                 THEN Mask(value)
                 ELSE value

RedactKey(properties, dataKey, value) ==
    IF dataKey = "oauthTokenData" \/ dataKey = "csrfSecret"
    THEN Mask(value)
    ELSE LET i == IndexOfName(properties, dataKey)
         IN IF i = 0
            THEN value
            ELSE IF /\ properties[i].password
                    /\ (~StartsWithExpression(value.s) \/ properties[i].noDataExpression)
                 THEN Mask(value)
                 ELSE value

\* redact throws only when flattening the schema throws
redactThrows(payload, type) ==
    ~getByNameThrows(type) /\ getExtendedPropsThrows(type)

\* variant: the token fields are masked for an unknown type too
redact_TokensAlways(payload, type) ==
    LET properties == IF getByNameThrows(type) THEN <<>> ELSE getExtendedProps(type)
    IN [dataKey \in DOMAIN payload |-> RedactKey(properties, dataKey, payload[dataKey])]

redact(payload, type) ==
    IF getByNameThrows(type)
    THEN payload
    ELSE LET properties == getExtendedProps(type)
         IN [dataKey \in DOMAIN payload |-> RedactKey(properties, dataKey, payload[dataKey])]

\* variant: only the blanking sentinel is recognised
IsSentinel_BlankingOnly(value) ==
    IsStr(value) /\ value.s = CREDENTIAL_BLANKING_VALUE

\* value === CREDENTIAL_BLANKING_VALUE || value === CREDENTIAL_EMPTY_VALUE
IsSentinel(value) ==
    IsStr(value) /\ value.s \in {CREDENTIAL_BLANKING_VALUE, CREDENTIAL_EMPTY_VALUE}

\* variant: restores top-level fields only, never descends
unredactRestoreValues_TopLevelOnly(unmerged, replacement) ==
    [key \in DOMAIN unmerged |->
        IF IsSentinel(unmerged[key])
        THEN IF key \in DOMAIN replacement THEN replacement[key] ELSE Undefined
        ELSE unmerged[key]]

RECURSIVE unredactRestoreValues(_, _)
unredactRestoreValues(unmerged, replacement) ==
    [key \in DOMAIN unmerged |->
        LET value == unmerged[key]
        IN IF IsSentinel(value)
           THEN IF key \in DOMAIN replacement THEN replacement[key] ELSE Undefined
           ELSE IF /\ IsObj(value)
                   /\ key \in DOMAIN replacement
                   /\ IsObj(replacement[key])
                THEN Obj(unredactRestoreValues(value.o, replacement[key].o))
                ELSE value]

unredact(redactedData, savedData) == unredactRestoreValues(redactedData, savedData)

Null == [n |-> "null"]

\* JavaScript truthiness of a payload value
Truthy(value) ==
    IF IsStr(value) THEN value.s # "" ELSE IsObj(value)

\* variant: the merged payload is returned as it is
prepareUpdateData_MergedOnly(submitted, decryptedData) == unredact(submitted, decryptedData)

\* the data of the entity prepareUpdateData returns; submitted is data.data
prepareUpdateData(submitted, decryptedData) ==
    LET mergedData == unredact(submitted, decryptedData)
    IN IF "oauthTokenData" \in DOMAIN decryptedData /\ Truthy(decryptedData["oauthTokenData"])
       THEN [key \in DOMAIN mergedData \cup {"oauthTokenData"} |->
                IF key = "oauthTokenData" THEN decryptedData["oauthTokenData"]
                ELSE mergedData[key]]
       ELSE mergedData

\* ------------------------------------------------------------------------
\* SpecRedact: a stored payload is redacted for a caller and the redacted
\* payload is sent back and unredacted against the stored one
\* ------------------------------------------------------------------------
InitRedact ==
    /\ credentials = {}
    /\ shared = {}
    /\ last = [op |-> "init"]
    /\ calls = NoCalls
    /\ observed = NoRead
    /\ data \in Payloads
    /\ credentialType \in TypeNames
    /\ redacted = <<>>
    /\ merged = <<>>
    /\ rpc = "stored"
    /\ incoming = <<>>
    /\ updateData = <<>>
    /\ flat = [pc |-> "idle"]
    /\ twin = <<>>

\* getOne: this.redact(this.decrypt(sharing.credentials), sharing.credentials)
Redact ==
    /\ rpc = "stored"
    /\ IF redactThrows(data, credentialType)
       THEN /\ rpc' = "threw"
            /\ UNCHANGED redacted
       ELSE /\ rpc' = "redacted"
            /\ redacted' = redact(data, credentialType)
    /\ UNCHANGED <<data, credentialType, merged, incoming, updateData, flat, twin, storeVars>>

\* prepareUpdateData: this.unredact(mergedData.data, decryptedData), with
\* the redacted payload sent back as it was received
Unredact ==
    /\ rpc = "redacted"
    /\ merged' = unredact(redacted, data)
    /\ rpc' = "merged"
    /\ UNCHANGED <<data, credentialType, redacted, incoming, updateData, flat, twin, storeVars>>

NextRedact ==
    \/ Redact
    \/ Unredact

SpecRedact == InitRedact /\ [][NextRedact]_vars

\* ------------------------------------------------------------------------
\* SpecUpdate: a caller submits a payload for a credential whose stored
\* payload is decrypted, and prepareUpdateData merges the two
\* ------------------------------------------------------------------------
UpdateKeys == {"x", "oauthTokenData"}
UpdateValues == ValuesOfDepth(MaxDepth) \cup {Null}
UpdatePayloads == UNION { [ks -> UpdateValues] : ks \in SUBSET UpdateKeys }

InitUpdate ==
    /\ credentials = {}
    /\ shared = {}
    /\ last = [op |-> "init"]
    /\ calls = NoCalls
    /\ observed = NoRead
    /\ data \in UpdatePayloads
    /\ incoming \in UpdatePayloads
    /\ credentialType = "none"
    /\ redacted = <<>>
    /\ merged = <<>>
    /\ updateData = <<>>
    /\ flat = [pc |-> "idle"]
    /\ twin = <<>>
    /\ rpc = "submitted"

PrepareUpdateData ==
    /\ rpc = "submitted"
    /\ merged' = unredact(incoming, data)
    /\ updateData' = prepareUpdateData(incoming, data)
    /\ rpc' = "prepared"
    /\ UNCHANGED <<data, incoming, credentialType, redacted, flat, twin, storeVars>>

NextUpdate == PrepareUpdateData

SpecUpdate == InitUpdate /\ [][NextUpdate]_vars

\* ------------------------------------------------------------------------
\* SpecFlatten: getExtendedProps call by call, over every extends graph
\* without a cycle on the types that carry properties
\* ------------------------------------------------------------------------
FlattenTypes == {"baseApi", "childApi", "diamondApi"}

\* the extends lists a type may declare: other types, none of them twice
ExtendsLists(t) ==
    LET others == FlattenTypes \ {t}
    IN {<<>>} \cup {<<a>> : a \in others}
            \cup UNION {{<<a, b>> : b \in others \ {a}} : a \in others}

Range(seq) == {seq[i] : i \in 1..Len(seq)}

RECURSIVE ReachableFrom(_, _, _)
ReachableFrom(g, types, n) ==
    IF n = 0
    THEN types
    ELSE ReachableFrom(g, types \cup UNION {Range(g[t]) : t \in types}, n - 1)

Acyclic(g) ==
    \A t \in FlattenTypes :
        t \notin ReachableFrom(g, Range(g[t]), Cardinality(FlattenTypes))

ExtendsGraphs ==
    {g \in [FlattenTypes -> UNION {ExtendsLists(t) : t \in FlattenTypes}] :
        (\A t \in FlattenTypes : g[t] \in ExtendsLists(t)) /\ Acyclic(g)}

\* the extends lists of the registry
RegistryGraph == [t \in FlattenTypes |-> Registry(t).extends]

Frame(type) == [type |-> type, i |-> 1, props |-> <<>>]

\* variant: the loop over type.extends does not move on
NextIndex_Stuck(i) == i

\* for (const e of type.extends ?? []): the next element
NextIndex(i) == i + 1

InitFlatten ==
    /\ credentials = {}
    /\ shared = {}
    /\ last = [op |-> "init"]
    /\ calls = NoCalls
    /\ observed = NoRead
    /\ data = <<>>
    /\ credentialType = "none"
    /\ redacted = <<>>
    /\ merged = <<>>
    /\ rpc = "idle"
    /\ incoming = <<>>
    /\ updateData = <<>>
    /\ twin = <<>>
    /\ \E g \in ExtendsGraphs, t \in FlattenTypes :
          flat = [pc |-> "running", extends |-> g, root |-> t,
                  stack |-> <<Frame(t)>>, visited |-> {t}, revisited |-> {},
                  result |-> <<>>]

\* const extendsType = getByName(e); getExtendedProps(extendsType)
FlattenDescend ==
    /\ flat.pc = "running"
    /\ LET top == flat.stack[Len(flat.stack)]
           extends == flat.extends[top.type]
       IN /\ top.i <= Len(extends)
          /\ flat' = [flat EXCEPT
                        !.stack = Append(@, Frame(extends[top.i])),
                        !.visited = @ \cup {extends[top.i]},
                        !.revisited = @ \cup ({extends[top.i]} \cap flat.visited)]
    /\ UNCHANGED <<data, credentialType, redacted, merged, rpc, incoming, updateData,
                   twin, storeVars>>

\* mergeNodeProperties(props, type.properties); return props; and in the
\* caller mergeNodeProperties(props, extendedProps)
FlattenReturn ==
    /\ flat.pc = "running"
    /\ LET n == Len(flat.stack)
           top == flat.stack[n]
           props == mergeNodeProperties(top.props, Registry(top.type).properties)
       IN /\ top.i > Len(flat.extends[top.type])
          /\ IF n = 1
             THEN flat' = [flat EXCEPT !.pc = "done", !.stack = <<>>, !.result = props]
             ELSE flat' = [flat EXCEPT
                             !.stack = [SubSeq(@, 1, n - 1) EXCEPT
                                          ![n - 1].props = mergeNodeProperties(@, props),
                                          ![n - 1].i = NextIndex(@)]]
    /\ UNCHANGED <<data, credentialType, redacted, merged, rpc, incoming, updateData,
                   twin, storeVars>>

NextFlatten ==
    \/ FlattenDescend
    \/ FlattenReturn

\* the calls are synchronous: a call that can take its next step takes it
SpecFlatten == InitFlatten /\ [][NextFlatten]_vars /\ WF_vars(NextFlatten)

\* ------------------------------------------------------------------------
\* SpecPair: two payloads with the same keys, stored for credentials of the
\* same type, are redacted
\* ------------------------------------------------------------------------
PairStrings == {"", "secret", "other", "={{$credentials.secret}}"}
PairValuesFor(key) ==
    {Str(v) : v \in PairStrings}
        \cup (IF key \in {"extra", "oauthTokenData"}
              THEN {Obj([a \in NestedKeys |-> Str("secret")])}
              ELSE {})
PairPayloadsOver(ks) ==
    {f \in [ks -> UNION {PairValuesFor(k) : k \in DataKeys}] :
        \A k \in ks : f[k] \in PairValuesFor(k)}

InitPair ==
    /\ credentials = {}
    /\ shared = {}
    /\ last = [op |-> "init"]
    /\ calls = NoCalls
    /\ observed = NoRead
    /\ credentialType \in TypeNames
    /\ \E ks \in {k \in SUBSET DataKeys : Cardinality(k) <= MaxKeys} :
          /\ data \in PairPayloadsOver(ks)
          /\ \E other \in PairPayloadsOver(ks) :
                twin = [payload |-> other, redacted |-> <<>>]
    /\ redacted = <<>>
    /\ merged = <<>>
    /\ rpc = "stored"
    /\ incoming = <<>>
    /\ updateData = <<>>
    /\ flat = [pc |-> "idle"]

\* redact of the one payload and redact of the other
RedactPair ==
    /\ rpc = "stored"
    /\ IF redactThrows(data, credentialType)
       THEN /\ rpc' = "threw"
            /\ UNCHANGED <<redacted, twin>>
       ELSE /\ rpc' = "redacted"
            /\ redacted' = redact(data, credentialType)
            /\ twin' = [twin EXCEPT !.redacted = redact(twin.payload, credentialType)]
    /\ UNCHANGED <<data, credentialType, merged, incoming, updateData, flat, storeVars>>

NextPair == RedactPair

SpecPair == InitPair /\ [][NextPair]_vars

\* C10: round trip: unredact(redact(P, T), P) = P for every payload P and
\* every resolvable type T: password fields get their value back and the
\* other fields are unchanged.
C10_RoundTrip == rpc = "merged" => merged = data

\* reached: a payload with an empty password field and a non-sensitive
\* field, masked with the empty sentinel and restored
C10_Witness ==
    /\ rpc = "merged"
    /\ credentialType = "baseApi"
    /\ DOMAIN data = {"x", "y"}
    /\ data["x"] = Str("")
    /\ redacted["x"] = Str(CREDENTIAL_EMPTY_VALUE)
    /\ redacted["y"] = data["y"]
    /\ merged = data

\* ------------------------------------------------------------------------
\* Ownership and transfer properties (Spec)
\* ------------------------------------------------------------------------
OneOwnerEach(rows, creds) == \A c \in creds : Cardinality(OwnerRows(rows, c)) = 1
AfterTransfer == last.op = "transferAll"

\* C1: in every committed state reached by save, transferAll and delete,
\* every existing credential has exactly one owner Sharing row.
C1_ExactlyOneOwner == OneOwnerEach(shared, credentials)

\* C2: after transferAll(A, B) from a state where each credential has one
\* owner row, the number of owner rows in {A, B} is the number before the
\* call and no credential has more than one owner row.
C2_OwnerCountPreserved ==
    (AfterTransfer /\ OneOwnerEach(last.pre, credentials)) =>
        /\ Cardinality(OwnerRowsIn(shared, {last.from, last.to}))
             = Cardinality(OwnerRowsIn(last.pre, {last.from, last.to}))
        /\ \A c \in credentials : Cardinality(OwnerRows(shared, c)) <= 1

\* C6 as stated: every non-owner row of the destination project that
\* exists before transferAll(A, B) exists unchanged after it.
C6_Original ==
    AfterTransfer =>
        \A sc \in last.pre :
            (sc.projectId = last.to /\ sc.role # OWNER) => sc \in shared

\* C6 amended: every non-owner row (c, B, r) that exists before
\* transferAll(A, B) exists unchanged after it, unless A holds the owner
\* row of c (then the row of B becomes the owner row).
C6_NonOwnerPreserved ==
    AfterTransfer =>
        \A sc \in last.pre :
            ( /\ sc.projectId = last.to
              /\ sc.role # OWNER
              /\ Row(sc.credentialsId, last.from, OWNER) \notin last.pre )
            => sc \in shared

\* reached: A held a non-owner row on a credential B already held a
\* non-owner row on, and B's row is still there after the transfer
C6_Witness ==
    /\ AfterTransfer
    /\ last.from # last.to
    /\ \E c \in credentials, r1 \in NonOwnerRoles, r2 \in NonOwnerRoles :
         /\ r1 # r2
         /\ Row(c, last.from, r1) \in last.pre
         /\ Row(c, last.to, r2) \in last.pre
         /\ Row(c, last.to, r2) \in shared

\* C7: after transferAll(A, B) with A # B, every credential A owned has
\* exactly one row for B and that row is the owner row, also when B held
\* a non-owner row for it before.
C7_DestinationOwnsOnce ==
    (AfterTransfer /\ last.from # last.to) =>
        \A c \in credentials :
            Row(c, last.from, OWNER) \in last.pre
            => RowsOf(shared, c, last.to) = {Row(c, last.to, OWNER)}

\* reached: B held an editor row on a credential A owned, and owns it now
C7_Witness ==
    /\ AfterTransfer
    /\ last.from # last.to
    /\ \E c \in credentials :
         /\ Row(c, last.from, OWNER) \in last.pre
         /\ Row(c, last.to, "credential:editor") \in last.pre
         /\ RowsOf(shared, c, last.to) = {Row(c, last.to, OWNER)}

\* C8: after transferAll(A, B) with A # B no row of project A remains,
\* neither an owner row nor a non-owner row.
C8_NoSourceRowsRemain ==
    (AfterTransfer /\ last.from # last.to) => findBy(shared, {last.from}) = {}

\* ------------------------------------------------------------------------
\* Atomicity, isolation and serializability of transferAll (SpecTx)
\* ------------------------------------------------------------------------
OthersIdle(i) == \A j \in CallIds \ {i} : calls[j].pc = "idle"
CallResult(rows, c) == transferAllRows(rows, c.from, c.to)

\* C3: a transferAll of which a statement failed leaves the Sharing rows
\* exactly as they were before the call, with or without a transaction
\* handle.
C3_AllOrNothing ==
    \A i \in CallIds :
        (calls[i].pc = "failed" /\ OthersIdle(i)) => shared = calls[i].pre

\* C4: a read of the Sharing rows concurrent with one transferAll sees
\* the rows as they were before the call or as they are after it, never
\* a state in between.
C4_ReadSeesPreOrPost ==
    \A i \in CallIds :
        (observed.op = "read" /\ calls[i].pc \in Running \cup {"done"} /\ OthersIdle(i))
        => observed.rows \in {calls[i].pre, CallResult(calls[i].pre, calls[i])}

\* C5: two concurrent transferAll calls (each between two different
\* projects) that both completed leave the rows one of the two serial
\* orders leaves, with exactly one owner row per credential.
C5_Serializable ==
    \A i \in CallIds, j \in CallIds :
        ( /\ i # j
          /\ calls[i].pc = "done" /\ calls[j].pc = "done"
          /\ calls[i].from # calls[i].to /\ calls[j].from # calls[j].to
          /\ \A k \in CallIds \ {i, j} : calls[k].pc = "idle" )
        => /\ shared \in { CallResult(CallResult(last.pre, calls[i]), calls[j]),
                           CallResult(CallResult(last.pre, calls[j]), calls[i]) }
           /\ OneOwnerEach(shared, credentials)

\* ------------------------------------------------------------------------
\* Usable credentials (SpecUse)
\* ------------------------------------------------------------------------
AfterUsable == last.op = "getCredentialsAUserCanUseInAWorkflow"

\* C9: every credential getCredentialsAUserCanUseInAWorkflow(U, context)
\* returns is one U can read with credential:read and one reachable from
\* the workflow's or project's side; none outside either set is returned.
C9_UsableIsIntersection ==
    AfterUsable =>
        /\ last.result \subseteq
             findCredentialsForUser(shared, credentials, last.user, "credential:read")
        /\ last.result \subseteq
             (IF last.options.kind = "workflowId"
              THEN findAllCredentialIdsForWorkflow(shared, credentials, last.options.id)
              ELSE findAllCredentialIdsForProject(shared, credentials, last.options.id))

\* reached: a query that returns a credential and leaves out one the user
\* can read but the context cannot reach
C9_Witness ==
    /\ AfterUsable
    /\ last.result # {}
    /\ \E c \in credentials \ last.result :
         c \in findCredentialsForUser(shared, credentials, last.user, "credential:read")

\* C21: after transferAll(A, B), for each credential c on which A held a
\* non-owner row: if B held no row for c before, B holds exactly one row
\* for c, with the role A had; if B held a row for c before, B's row is
\* there with its role unchanged and no second row (c, B) exists.
C21_NonOwnerTransferRule ==
    AfterTransfer =>
        \A sc \in last.pre :
            (sc.projectId = last.from /\ sc.role # OWNER) =>
                IF RowsOf(last.pre, sc.credentialsId, last.to) = {}
                THEN RowsOf(shared, sc.credentialsId, last.to)
                        = {Row(sc.credentialsId, last.to, sc.role)}
                ELSE RowsOf(shared, sc.credentialsId, last.to)
                        = RowsOf(last.pre, sc.credentialsId, last.to)

\* reached: pA is editor of one credential pB has no row for and user of
\* another that pB owns; pB becomes editor of the first and stays owner of
\* the second
C21_Witness ==
    /\ AfterTransfer
    /\ last.from = "pA"
    /\ last.to = "pB"
    /\ \E c1 \in credentials, c2 \in credentials :
          /\ c1 # c2
          /\ Row(c1, "pA", "credential:editor") \in last.pre
          /\ RowsOf(last.pre, c1, "pB") = {}
          /\ RowsOf(shared, c1, "pB") = {Row(c1, "pB", "credential:editor")}
          /\ Row(c2, "pA", "credential:user") \in last.pre
          /\ Row(c2, "pB", OWNER) \in last.pre
          /\ RowsOf(shared, c2, "pB") = {Row(c2, "pB", OWNER)}

\* C24: transferAll(A, A) is a no-op on the sharing rows: every row that
\* existed before the call exists after it with the same role, so every
\* credential A owned still has its owner row.
C24_SelfTransferNoOp ==
    (AfterTransfer /\ last.from = last.to) =>
        /\ \A sc \in last.pre : sc \in shared
        /\ \A c \in credentials :
              Row(c, last.from, OWNER) \in last.pre => OwnerRows(shared, c) # {}

\* ------------------------------------------------------------------------
\* Create (Spec)
\* ------------------------------------------------------------------------
LacksCreateIn(u, projectId) ==
    /\ ~HasGlobalScope(u, "credential:create")
    /\ ~\E pr \in ProjectRelations :
          /\ pr.userId = u
          /\ pr.projectId = projectId
          /\ "credential:create" \in ProjectRoleScopes(pr.role)

HasNoPersonalProject(u) ==
    ~\E pr \in ProjectRelations : pr.userId = u /\ pr.role = "project:personalOwner"

ReadableThroughOwnSharing(u, c) ==
    \E sc \in shared : \E pr \in ProjectRelations :
        /\ pr.userId = u
        /\ pr.projectId = sc.projectId
        /\ sc.credentialsId = c
        /\ "credential:read" \in CredentialRoleScopes(sc.role)
        /\ "credential:read" \in ProjectRoleScopes(pr.role)

OthersPersonalProject(u, projectId) ==
    /\ projectId \in Projects
    /\ ProjectType(projectId) = "personal"
    /\ [projectId |-> projectId, userId |-> u, role |-> "project:personalOwner"]
          \notin ProjectRelations

\* C16: for a caller without the global credential:list scope, getMany
\* filtered by another user's personal project never queries with that
\* project id: the query uses the caller's own personal project (no project
\* filter for a caller that has none), and every credential returned is
\* one the caller reaches through an own credential:read sharing.
C16_PersonalFilterRewritten ==
    (last.op = "getMany" /\ ~HasGlobalScope(last.user, "credential:list")) =>
        /\ OthersPersonalProject(last.user, last.projectId) =>
              /\ last.queried # last.projectId
              /\ IF HasNoPersonalProject(last.user)
                 THEN last.queried = "undefined"
                 ELSE /\ [projectId |-> last.queried, userId |-> last.user,
                          role |-> "project:personalOwner"] \in ProjectRelations
                      /\ \A c \in last.result :
                            \E sc \in shared :
                                sc.credentialsId = c /\ sc.projectId = last.queried
        /\ \A c \in last.result : ReadableThroughOwnSharing(last.user, c)

\* reached: u2 lists with u1's personal project as the filter, gets a
\* credential of its own personal project and not the one pA owns
C16_Witness ==
    /\ last.op = "getMany"
    /\ last.user = "u2"
    /\ last.projectId = "pA"
    /\ last.queried = "pB"
    /\ last.result # {}
    /\ \E c \in credentials \ last.result : Row(c, "pA", OWNER) \in shared

\* C22: getOne with includeDecryptedData returns data only to a user that
\* holds credential:update on the credential; a user that holds only
\* credential:read gets the credential without a data field; a user with
\* no visible sharing gets NotFoundError; without includeDecryptedData the
\* result never has a data field.
C22_DataOnlyWithUpdate ==
    last.op = "getOne" =>
        LET canRead == HoldsCredentialScope(shared, last.user, last.id, "credential:read")
            canUpdate == HoldsCredentialScope(shared, last.user, last.id, "credential:update")
        IN /\ last.result.hasData => (last.includeDecryptedData /\ canUpdate)
           /\ (last.includeDecryptedData /\ canRead /\ ~canUpdate) =>
                 (last.result.error = "none" /\ ~last.result.hasData)
           /\ ~canRead => last.result.error = "NotFoundError"
           /\ ~last.includeDecryptedData => ~last.result.hasData

\* ------------------------------------------------------------------------
\* Redaction properties (SpecRedact)
\* ------------------------------------------------------------------------
Redacted == rpc \in {"redacted", "merged"}

\* C11: a field redact masks becomes the blanking sentinel when its value
\* is non-empty and the empty sentinel when it is the empty string, and the
\* two sentinels are different values.
C11_SentinelDistinction ==
    /\ CREDENTIAL_BLANKING_VALUE # CREDENTIAL_EMPTY_VALUE
    /\ Redacted =>
         \A k \in DOMAIN data :
            redacted[k] # data[k] =>
                /\ data[k] # Str("") => redacted[k] = Str(CREDENTIAL_BLANKING_VALUE)
                /\ data[k] = Str("") => redacted[k] = Str(CREDENTIAL_EMPTY_VALUE)

\* reached: one payload with a non-empty and an empty secret, masked with
\* the two different sentinels
C11_Witness ==
    /\ rpc = "redacted"
    /\ credentialType = "baseApi"
    /\ DOMAIN data = {"x", "csrfSecret"}
    /\ data["x"] = Str("secret")
    /\ data["csrfSecret"] = Str("")
    /\ redacted["x"] = Str(CREDENTIAL_BLANKING_VALUE)
    /\ redacted["csrfSecret"] = Str(CREDENTIAL_EMPTY_VALUE)

TokenKeys == {"oauthTokenData", "csrfSecret"}
SentinelFor(value) ==
    IF value = Str("") THEN Str(CREDENTIAL_EMPTY_VALUE) ELSE Str(CREDENTIAL_BLANKING_VALUE)

\* C14: for a credential whose own type the registry does not know, redact
\* raises nothing and returns the payload unchanged, oauthTokenData and
\* csrfSecret included.
C14_UnknownTypeFailsOpen ==
    credentialType \notin KnownTypes =>
        /\ rpc # "threw"
        /\ Redacted => redacted = data

\* reached: token data and a CSRF secret of a removed type returned as stored
C14_Witness ==
    /\ rpc = "redacted"
    /\ credentialType = "removedApi"
    /\ DOMAIN data = TokenKeys
    /\ data["oauthTokenData"] = Obj([a \in {"a"} |-> Str("secret")])
    /\ data["csrfSecret"] = Str("secret")
    /\ redacted = data

\* C17: childApi extends baseApi, baseApi declares x as a password and
\* childApi declares x again as a non-password: the flattened list holds
\* one descriptor for x, childApi's, at the place x first had, and redact
\* leaves x unmasked.
C17_ChildOverridesParent ==
    LET props == getExtendedProps("childApi")
    IN /\ Cardinality({i \in 1..Len(props) : props[i].name = "x"}) = 1
       /\ IndexOfName(getExtendedProps("baseApi"), "x") = 1
       /\ props[1] = Prop("x", FALSE, FALSE)
       /\ (Redacted /\ credentialType = "childApi" /\ "x" \in DOMAIN data)
             => redacted["x"] = data["x"]

\* reached: a childApi payload whose x comes back as stored
C17_Witness ==
    /\ rpc = "redacted"
    /\ credentialType = "childApi"
    /\ DOMAIN data = {"x", "z"}
    /\ data["x"] = Str("secret")
    /\ data["z"] = Str("secret")
    /\ redacted["x"] = Str("secret")
    /\ redacted["z"] = Str(CREDENTIAL_BLANKING_VALUE)

\* C18: redact never raises, also when the credential's own type is known
\* and a type named in its extends chain is not.
C18_RedactNeverRaises == rpc # "threw"

\* C19 as stated: for every payload, the value redact returns at
\* oauthTokenData or csrfSecret is a sentinel.
C19_Original ==
    Redacted =>
        \A k \in DOMAIN data \cap TokenKeys : redacted[k] = SentinelFor(data[k])

\* C19 amended: for a credential whose own type the registry knows, the
\* value redact returns at oauthTokenData or csrfSecret is the blanking
\* sentinel for a non-empty value and the empty sentinel otherwise, whether
\* or not the schema lists the key and whatever it says about it.
C19_TokensMaskedForKnownType ==
    (Redacted /\ credentialType \in KnownTypes) =>
        \A k \in DOMAIN data \cap TokenKeys : redacted[k] = SentinelFor(data[k])

\* reached: a type whose schema lists oauthTokenData as a non-password, the
\* token data masked and an empty CSRF secret masked as empty
C19_Witness ==
    /\ rpc = "redacted"
    /\ credentialType = "diamondApi"
    /\ IndexOfName(getExtendedProps("diamondApi"), "oauthTokenData") # 0
    /\ DOMAIN data = TokenKeys
    /\ data["oauthTokenData"] = Obj([a \in {"a"} |-> Str("secret")])
    /\ data["csrfSecret"] = Str("")
    /\ redacted["oauthTokenData"] = Str(CREDENTIAL_BLANKING_VALUE)
    /\ redacted["csrfSecret"] = Str(CREDENTIAL_EMPTY_VALUE)

\* C20: for a resolvable type and a key other than oauthTokenData and
\* csrfSecret, redact masks the value exactly when the flattened schema
\* holds a password descriptor for the key and the value does not start
\* with '={{' or the descriptor sets noDataExpression; otherwise the value
\* is returned unchanged.
C20_MaskedExactlyWhenPassword ==
    (Redacted /\ credentialType \in KnownTypes) =>
        LET props == getExtendedProps(credentialType)
            marked(k) ==
                \E i \in 1..Len(props) :
                    /\ props[i].name = k
                    /\ props[i].password
                    /\ (~StartsWithExpression(data[k].s) \/ props[i].noDataExpression)
        IN \A k \in DOMAIN data \ TokenKeys :
              IF marked(k)
              THEN redacted[k] = SentinelFor(data[k])
              ELSE redacted[k] = data[k]

\* reached: an expression in a password field that allows no expressions is
\* masked, next to a non-password field returned as stored
C20_Witness ==
    /\ rpc = "redacted"
    /\ credentialType = "childApi"
    /\ DOMAIN data = {"y", "z"}
    /\ StartsWithExpression(data["z"].s)
    /\ redacted["z"] = Str(CREDENTIAL_BLANKING_VALUE)
    /\ data["y"] = Str("secret")
    /\ redacted["y"] = data["y"]

\* C23: getExtendedProps terminates for every extends graph without a
\* cycle, also when a parent type is reached through several paths.
C23_FlattenTerminates == <>(flat.pc = "done")

\* reached: the registry's own graph, diamondApi flattened with baseApi
\* entered a second time, and the list the recursive definition gives
C23_Witness ==
    /\ flat.pc = "done"
    /\ flat.extends = RegistryGraph
    /\ flat.root = "diamondApi"
    /\ "baseApi" \in flat.revisited
    /\ flat.result = getExtendedProps("diamondApi")

\* ------------------------------------------------------------------------
\* Update properties (SpecUpdate)
\* ------------------------------------------------------------------------
Prepared == rpc = "prepared"

\* m is i with its sentinel fields taken from s: a sentinel field holds what
\* s holds at the key, an object is entered only where s holds an object at
\* the key too, and everything else is as in i
RECURSIVE RestoredFrom(_, _, _)
RestoredFrom(m, i, s) ==
    /\ DOMAIN m = DOMAIN i
    /\ \A k \in DOMAIN i :
        IF i[k] \in {Str(CREDENTIAL_BLANKING_VALUE), Str(CREDENTIAL_EMPTY_VALUE)}
        THEN m[k] = IF k \in DOMAIN s THEN s[k] ELSE Undefined
        ELSE IF IsObj(i[k]) /\ k \in DOMAIN s /\ IsObj(s[k])
             THEN IsObj(m[k]) /\ RestoredFrom(m[k].o, i[k].o, s[k].o)
             ELSE m[k] = i[k]

\* C12: in unredact(incoming, saved) every field whose incoming value is
\* one of the two sentinels has the value saved holds at the same key,
\* every other scalar field has the value the caller submitted, and the
\* restoration descends only where incoming and saved both hold a non-null
\* object at the key; a mismatch is skipped without an error.
C12_UnredactRestores == Prepared => RestoredFrom(merged, incoming, data)

\* reached: a nested sentinel restored from the saved object at one key, and
\* an incoming object over a saved string left as submitted at the other
C12_Witness ==
    /\ Prepared
    /\ DOMAIN incoming = UpdateKeys
    /\ DOMAIN data = UpdateKeys
    /\ incoming["x"] = Obj([a \in {"a"} |-> Str(CREDENTIAL_BLANKING_VALUE)])
    /\ data["x"] = Obj([a \in {"a"} |-> Str("secret")])
    /\ merged["x"] = data["x"]
    /\ incoming["oauthTokenData"] = Obj([a \in {"a"} |-> Str(CREDENTIAL_EMPTY_VALUE)])
    /\ data["oauthTokenData"] = Str("secret")
    /\ merged["oauthTokenData"] = incoming["oauthTokenData"]

StoredToken == "oauthTokenData" \in DOMAIN data /\ Truthy(data["oauthTokenData"])
SubmitsNewToken ==
    /\ "oauthTokenData" \in DOMAIN incoming
    /\ incoming["oauthTokenData"] # Null
    /\ ~IsSentinel(incoming["oauthTokenData"])

\* C13 as stated: the stored oauthTokenData is kept when the caller omits
\* the key or sends a sentinel for it, and it is replaced by the caller's
\* value when the caller submits new, non-sentinel oauthTokenData.
C13_Original ==
    (Prepared /\ StoredToken) =>
        IF SubmitsNewToken
        THEN updateData["oauthTokenData"] = incoming["oauthTokenData"]
        ELSE updateData["oauthTokenData"] = data["oauthTokenData"]

\* C13 amended: a stored, non-empty oauthTokenData is always what the
\* prepared data holds, whatever the caller submits at that key; the
\* caller's value is used only when nothing non-empty is stored.
C13_StoredTokenAlwaysKept ==
    Prepared =>
        IF StoredToken
        THEN /\ "oauthTokenData" \in DOMAIN updateData
             /\ updateData["oauthTokenData"] = data["oauthTokenData"]
        ELSE updateData = merged

\* reached: the caller submits new token data over stored token data and the
\* prepared data holds the stored one
C13_Witness ==
    /\ Prepared
    /\ StoredToken
    /\ SubmitsNewToken
    /\ incoming["oauthTokenData"] = Str("secret")
    /\ data["oauthTokenData"] = Obj([a \in {"a"} |-> Str("secret")])
    /\ updateData["oauthTokenData"] = data["oauthTokenData"]

\* a payload holds one of the two sentinels at some depth
RECURSIVE HoldsSentinel(_)
HoldsSentinel(payload) ==
    \E k \in DOMAIN payload :
        \/ IsSentinel(payload[k])
        \/ IsObj(payload[k]) /\ HoldsSentinel(payload[k].o)

\* C25: a sentinel is never written back: for every incoming payload and
\* every saved payload that holds no sentinel, neither the result of
\* unredact nor the data prepareUpdateData returns holds a sentinel at any
\* depth.
C25_NoSentinelWrittenBack ==
    (Prepared /\ ~HoldsSentinel(data)) =>
        (~HoldsSentinel(merged) /\ ~HoldsSentinel(updateData))

\* ------------------------------------------------------------------------
\* Noninterference (SpecPair)
\* ------------------------------------------------------------------------
\* the fields redact masks: the two token fields and the fields the
\* flattened schema marks as password
MaskedField(type, k) ==
    \/ k \in TokenKeys
    \/ LET props == getExtendedProps(type)
       IN \E i \in 1..Len(props) : props[i].name = k /\ props[i].password

NonEmptyPlain(value) ==
    IF IsStr(value) THEN value.s # "" /\ ~StartsWithExpression(value.s) ELSE TRUE

\* the two payloads differ only in masked fields, and each value that
\* differs is non-empty and not an expression in both
DifferOnlyInMasked ==
    \A k \in DOMAIN data :
        data[k] # twin.payload[k] =>
            /\ MaskedField(credentialType, k)
            /\ NonEmptyPlain(data[k])
            /\ NonEmptyPlain(twin.payload[k])

\* C26: for a resolvable type, two payloads with the same keys that differ
\* only in the values of masked fields, each differing value non-empty and
\* not an expression in both, have identical redact outputs.
C26_RedactNoninterference ==
    ( /\ rpc = "redacted"
      /\ twin # <<>>
      /\ credentialType \in KnownTypes
      /\ DifferOnlyInMasked )
    => redacted = twin.redacted

\* reached: two baseApi payloads with different passwords and different
\* token data, both redacted to the same output
C26_Witness ==
    /\ rpc = "redacted"
    /\ twin # <<>>
    /\ credentialType = "baseApi"
    /\ DOMAIN data = {"x", "oauthTokenData"}
    /\ data["x"] = Str("secret")
    /\ twin.payload["x"] = Str("other")
    /\ data["oauthTokenData"] = Str("secret")
    /\ twin.payload["oauthTokenData"] = Obj([a \in NestedKeys |-> Str("secret")])
    /\ redacted = twin.redacted
    /\ redacted["x"] = Str(CREDENTIAL_BLANKING_VALUE)

====
